---- MODULE Spec2Model ----
(***************************************************************************)
(* A model of the LBS anomaly / RAG backend (src/lbs-anomaly-rag/backend): *)
(* the cache service (services/cache_service.py) with its two backends and *)
(* its disk persistence, the callers that serve cached results (main.py,   *)
(* services/rag_service.py), the composite detector                        *)
(* (services/anomaly_detection.py) and the example store                   *)
(* (services/vector_store.py).                                             *)
(*                                                                         *)
(* Python objects are records, a method is an operator from the object     *)
(* (self) and its arguments to the new object and the returned value, and  *)
(* an action applies one method, or one handler, to the state.  Time is a  *)
(* clock of whole seconds; every datetime.now() of one call reads the same *)
(* second.                                                                 *)
(***************************************************************************)
EXTENDS Integers, Sequences, FiniteSets, TLC

VARIABLES
    use_redis,      \* CacheService.use_redis
    memory_cache,   \* CacheService.memory_cache: key -> (value, expiry_iso)
    redis_db,       \* the key space of the Redis server behind redis_client
    stats,          \* CacheService.stats: hits, misses, sets
    disk_file,      \* the file at CacheService._persist_path
    now,            \* the wall clock, in seconds
    last,           \* the last call made: its arguments and what it returned
    latest_set,     \* history: key -> the value and ttl of the latest set(key)
    stale,          \* history: per restart time, mutating calls since the map last matched the file
    th,             \* the threads calling the cache concurrently
    acked,          \* history: key -> entry whose set returned True to a thread
    det,            \* detect_all_anomalies: the sub-detectors' outcomes and the response
    vs              \* VectorStore: the collection, the clock, the callers, the ids issued

cache_vars == <<use_redis, memory_cache, redis_db, stats, disk_file, now, last, latest_set, stale>>
conc_vars == <<th, acked>>
vars == <<use_redis, memory_cache, redis_db, stats, disk_file, now, last, latest_set, stale,
          th, acked, det, vs>>

-----------------------------------------------------------------------------
(* Bounds of the model. *)

\* the clock stops advancing here
MaxNow == 2
\* calls to set, and to get, explored per process
MaxSets == 2
MaxGets == 2

\* examples the store holds at most (SpecStore)
MaxExamples == 2

\* entries the cache file held when the process started (SpecCleanup)
FillerEntries == 999
\* calls to set explored on top of them
MaxCleanupSets == 3

-----------------------------------------------------------------------------
(* Python values. *)

NoneV == [some |-> FALSE]
Some(v) == [some |-> TRUE, v |-> v]

\* a bool or an int returned by a method; bool(x) is the int 0 or 1 tagged bool
PyBool(b) == [type |-> "bool", n |-> IF b THEN 1 ELSE 0]
PyInt(n) == [type |-> "int", n |-> n]
PyTrue == PyBool(TRUE)
PyFalse == PyBool(FALSE)

\* `if x:` for an optional integer: None and 0 are false
Truthy(x) == x.some /\ x.v # 0

\* dict helpers
EmptyDict == [k \in {} |-> NoneV]
Put(d, k, e) == (k :> e) @@ d
Del(d, ks) == [x \in (DOMAIN d) \ ks |-> d[x]]
len(d) == Cardinality(DOMAIN d)

\* datetime.isoformat() and datetime.fromisoformat(): the text of an instant and
\* its parse; whole seconds survive the round trip
isoformat(t) == [iso |-> t]
fromisoformat(s) == s.iso

\* a cached result: the payload and the "cached" / "sql_cache_hit" tag of the dict
Result(d, c) == [data |-> d, cached |-> c]

\* cache keys: _generate_key gives "<prefix>:<md5 of the parameters>"; a key is
\* its prefix and the parameters' digest (distinct parameters, distinct digests)
Prefixes == {"query", "sql", "anomaly"}
_generate_key(prefix, data) == <<prefix, data>>
\* str.startswith(pattern.replace('*', '')) for the patterns "<prefix>:*"
StartsWith(key, pattern) == key[1] = pattern

-----------------------------------------------------------------------------
(* Program constants. *)

\* cache_service.py:135, the size above which set() sweeps expired entries
CleanupThreshold == 1000
\* cache_service.py:139, set() writes the file on every 10th set
PersistEvery == 10
\* main.py:381, the ttl detect_prophet stores its result with
ProphetTTL == 3600

-----------------------------------------------------------------------------
(* The environment of one call: whether the Redis server answers, and how a  *)
(* write of the cache file ends (the directory or the open fails and the     *)
(* file is untouched; the dump fails after open(path, 'w') truncated it).    *)

IoOk == [redis |-> "ok", disk |-> "ok"]
DiskOutcomes == {"ok", "fail_open", "fail_write"}
RedisOutcomes == {"ok", "down"}

\* json.dumps / json.loads of a result: a text holding a copy of the value
dumps(v) == [json |-> v]
loads(s) == s.json

-----------------------------------------------------------------------------
(* The Redis server, as the commands CacheService sends see it. *)

\* keys the server still holds at time t: a key with an expiry is gone at it
RedisLive(db, t) == {k \in DOMAIN db : ~db[k].expire_at.some \/ t < db[k].expire_at.v}

\* SETEX key seconds value: the server rejects a non-positive expire time and
\* the client cannot encode None; both raise in the caller
SetexAccepts(ttl_seconds) == ttl_seconds.some /\ ttl_seconds.v > 0
Setex(db, key, ttl_seconds, text, t) ==
    Put(Del(db, (DOMAIN db) \ RedisLive(db, t)), key,
        [value |-> text, expire_at |-> Some(t + ttl_seconds.v)])

-----------------------------------------------------------------------------
(* CacheService (services/cache_service.py). *)

\* the object after __init__ found no Redis and no cache file, or found Redis
NewCache(redis) ==
    [use_redis |-> redis, memory_cache |-> EmptyDict, redis |-> EmptyDict,
     stats |-> [hits |-> 0, misses |-> 0, sets |-> 0],
     disk |-> [state |-> "missing", data |-> EmptyDict]]

\* IsFresh with the comparison of line 91 off by one: an entry is still served
\* at its expiry time
IsFresh_ServedAtExpiry(expiry_iso, t) == ~expiry_iso.some \/ t <= fromisoformat(expiry_iso.v)

\* line 91: the entry is served when it has no expiry or now is before it
IsFresh(expiry_iso, t) == ~expiry_iso.some \/ t < fromisoformat(expiry_iso.v)

\* lines 201 and 216: the entry is dropped by the sweep and by the load
IsExpired(expiry_iso, t) == expiry_iso.some /\ fromisoformat(expiry_iso.v) <= t

\* _cleanup_memory_cache with the comparison of line 201 strict: an entry that
\* expires at this very second is kept
_cleanup_KeepsJustExpired(mc, t) ==
    Del(mc, {k \in DOMAIN mc : mc[k].expiry_iso.some /\ fromisoformat(mc[k].expiry_iso.v) < t})

\* lines 196-204
_cleanup_memory_cache(mc, t) ==
    Del(mc, {k \in DOMAIN mc : IsExpired(mc[k].expiry_iso, t)})

\* lines 206-220: a missing or unreadable file leaves the map as it is
_load_from_disk(self, t) ==
    IF self.disk.state # "ok"
    THEN self
    ELSE LET data == self.disk.data
             kept == {k \in DOMAIN data : ~IsExpired(data[k].expiry_iso, t)}
         IN  [self EXCEPT !.memory_cache =
                 [k \in (DOMAIN @) \cup kept |-> IF k \in kept THEN data[k] ELSE @[k]]]

\* _save_to_disk without the try/except of lines 227-235: a failed write raises
_save_to_disk_Raises(self, outcome) ==
    IF self.use_redis
    THEN [self |-> self, raised |-> FALSE]
    ELSE CASE outcome = "ok" ->
                [self |-> [self EXCEPT !.disk = [state |-> "ok", data |-> self.memory_cache]],
                 raised |-> FALSE]
           [] outcome = "fail_open" ->
                [self |-> self, raised |-> TRUE]
           [] OTHER ->
                [self |-> [self EXCEPT !.disk = [state |-> "corrupt", data |-> EmptyDict]],
                 raised |-> TRUE]

\* lines 222-235: every failure is caught and logged inside
_save_to_disk(self, outcome) ==
    IF self.use_redis
    THEN [self |-> self, raised |-> FALSE]
    ELSE CASE outcome = "ok" ->
                [self |-> [self EXCEPT !.disk = [state |-> "ok", data |-> self.memory_cache]],
                 raised |-> FALSE]
           [] outcome = "fail_open" ->
                [self |-> self, raised |-> FALSE]
           [] OTHER ->
                [self |-> [self EXCEPT !.disk = [state |-> "corrupt", data |-> EmptyDict]],
                 raised |-> FALSE]

\* get() with the except branch of lines 101-104 leaving the counters alone
get_ErrorUncounted(self, key, t, io) ==
    IF self.use_redis
    THEN IF io.redis # "ok"
         THEN [self |-> self, ret |-> NoneV]
         ELSE IF key \in RedisLive(self.redis, t)
              THEN [self |-> [self EXCEPT !.stats.hits = @ + 1],
                    ret |-> Some(loads(self.redis[key].value))]
              ELSE [self |-> [self EXCEPT !.stats.misses = @ + 1], ret |-> NoneV]
    ELSE IF key \in DOMAIN self.memory_cache
         THEN IF IsFresh(self.memory_cache[key].expiry_iso, t)
              THEN [self |-> [self EXCEPT !.stats.hits = @ + 1],
                    ret |-> Some(self.memory_cache[key].value)]
              ELSE [self |-> [self EXCEPT !.memory_cache = Del(@, {key}),
                                          !.stats.misses = @ + 1],
                    ret |-> NoneV]
         ELSE [self |-> [self EXCEPT !.stats.misses = @ + 1], ret |-> NoneV]

\* lines 67-104
get(self, key, t, io) ==
    IF self.use_redis
    THEN IF io.redis # "ok"
         THEN [self |-> [self EXCEPT !.stats.misses = @ + 1], ret |-> NoneV]
         ELSE IF key \in RedisLive(self.redis, t)
              THEN [self |-> [self EXCEPT !.stats.hits = @ + 1],
                    ret |-> Some(loads(self.redis[key].value))]
              ELSE [self |-> [self EXCEPT !.stats.misses = @ + 1], ret |-> NoneV]
    ELSE IF key \in DOMAIN self.memory_cache
         THEN IF IsFresh(self.memory_cache[key].expiry_iso, t)
              THEN [self |-> [self EXCEPT !.stats.hits = @ + 1],
                    ret |-> Some(self.memory_cache[key].value)]
              ELSE [self |-> [self EXCEPT !.memory_cache = Del(@, {key}),
                                          !.stats.misses = @ + 1],
                    ret |-> NoneV]
         ELSE [self |-> [self EXCEPT !.stats.misses = @ + 1], ret |-> NoneV]

\* line 131
ExpiryOf(ttl_seconds, t) ==
    IF Truthy(ttl_seconds) THEN Some(isoformat(t + ttl_seconds.v)) ELSE NoneV

\* lines 106-146
set(self, key, value, ttl_seconds, t, io) ==
    LET s1 == [self EXCEPT !.stats.sets = @ + 1]
    IN  IF self.use_redis
        THEN IF io.redis = "ok" /\ SetexAccepts(ttl_seconds)
             THEN [self |-> [s1 EXCEPT !.redis = Setex(@, key, ttl_seconds, dumps(value), t)],
                   ret |-> PyTrue]
             ELSE [self |-> s1, ret |-> PyFalse]
        ELSE LET s2 == [s1 EXCEPT !.memory_cache =
                           Put(@, key, [value |-> value, expiry_iso |-> ExpiryOf(ttl_seconds, t)])]
                 s3 == IF len(s2.memory_cache) > CleanupThreshold
                       THEN [s2 EXCEPT !.memory_cache = _cleanup_memory_cache(@, t)]
                       ELSE s2
                 s4 == IF s3.stats.sets % PersistEvery = 0
                       THEN _save_to_disk(s3, io.disk)
                       ELSE [self |-> s3, raised |-> FALSE]
             IN  [self |-> s4.self, ret |-> IF s4.raised THEN PyFalse ELSE PyTrue]

\* lines 148-159
delete(self, key, t, io) ==
    IF self.use_redis
    THEN IF io.redis # "ok"
         THEN [self |-> self, ret |-> PyFalse]
         ELSE [self |-> [self EXCEPT !.redis = Del(@, {key})],
               ret |-> PyBool(key \in RedisLive(self.redis, t))]
    ELSE IF key \in DOMAIN self.memory_cache
         THEN [self |-> [self EXCEPT !.memory_cache = Del(@, {key})], ret |-> PyTrue]
         ELSE [self |-> self, ret |-> PyFalse]

\* lines 161-194; pattern is None (NoneV) or Some of a key prefix, for "<prefix>:*"
clear(self, pattern, t, io) ==
    IF self.use_redis
    THEN IF io.redis # "ok"
         THEN [self |-> self, ret |-> PyInt(0)]
         ELSE IF pattern.some
              THEN LET keys == {k \in RedisLive(self.redis, t) : StartsWith(k, pattern.v)}
                   IN  [self |-> [self EXCEPT !.redis = Del(@, keys)],
                        ret |-> PyInt(Cardinality(keys))]
              ELSE [self |-> [self EXCEPT !.redis = EmptyDict], ret |-> PyTrue]
    ELSE IF pattern.some
         THEN LET keys_to_delete == {k \in DOMAIN self.memory_cache : StartsWith(k, pattern.v)}
              IN  [self |-> [self EXCEPT !.memory_cache = Del(@, keys_to_delete)],
                   ret |-> PyInt(Cardinality(keys_to_delete))]
         ELSE [self |-> [self EXCEPT !.memory_cache = EmptyDict],
               ret |-> PyInt(len(self.memory_cache))]

\* lines 294-298; an exception of _save_to_disk would reach the caller
clear_query_cache(self, t, io) ==
    LET c1 == clear(self, Some("query"), t, io)
        c2 == clear(c1.self, Some("sql"), t, io)
        s == _save_to_disk(c2.self, io.disk)
    IN  [self |-> s.self, ret |-> PyInt(c1.ret.n + c2.ret.n), raised |-> s.raised]

\* lines 300-304
clear_anomaly_cache(self, t, io) ==
    LET c == clear(self, Some("anomaly"), t, io)
        s == _save_to_disk(c.self, io.disk)
    IN  [self |-> s.self, ret |-> c.ret, raised |-> s.raised]

-----------------------------------------------------------------------------
(* Callers that serve cached results. *)

\* main.py:367-369 and rag_service.py:264-266: the caller writes the tag into
\* the dict that get() returned.  The in-process get() returns the stored dict
\* itself (cache_service.py:90-93), the Redis get() a fresh json.loads copy.
TagServedHit(self, key) ==
    IF self.use_redis
    THEN self
    ELSE [self EXCEPT !.memory_cache[key].value.cached = TRUE]

\* main.py:355-385, detect_prophet.  outcome is what detect_prophet_anomalies
\* does when it runs: it raises, or it returns a result with this payload.
detect_prophet(self, params, outcome, t, io) ==
    LET key == _generate_key("anomaly", params)
        g == get(self, key, t, io)
    IN  IF g.ret.some
        THEN [self |-> TagServedHit(g.self, key),
              ret |-> Some(Result(g.ret.v.data, TRUE)), status |-> 200, set_ret |-> NoneV]
        ELSE IF outcome.raised
             THEN [self |-> g.self, ret |-> NoneV, status |-> 500, set_ret |-> NoneV]
             ELSE LET result == Result(outcome.data, FALSE)
                      s == set(g.self, key, result, Some(ProphetTTL), t, io)
                  IN  [self |-> s.self, ret |-> Some(result), status |-> 200, set_ret |-> s.ret]

-----------------------------------------------------------------------------
(* The cache as state: one CacheService per process, its Redis server, its  *)
(* file and the clock.                                                      *)

Self ==
    [use_redis |-> use_redis, memory_cache |-> memory_cache, redis |-> redis_db,
     stats |-> stats, disk |-> disk_file]

Store(self) ==
    /\ use_redis' = self.use_redis
    /\ memory_cache' = self.memory_cache
    /\ redis_db' = self.redis
    /\ stats' = self.stats
    /\ disk_file' = self.disk
    /\ UNCHANGED <<now, th, acked, det, vs>>

\* the entries a get() at time t can find, on the backend in use
Held(self, t) ==
    IF self.use_redis THEN RedisLive(self.redis, t) ELSE DOMAIN self.memory_cache

\* the record of the last call: the method, its key, what it returned, whether
\* the Redis server or the disk failed it, and the facts about the state it met
\* (stats_before: the counters as the call found them)
Call(op, key, ret, io) ==
    [op |-> op, key |-> key, ret |-> ret,
     outage |-> (use_redis /\ io.redis # "ok"), disk |-> io.disk,
     ttl_forever |-> FALSE, no_pattern |-> FALSE, was_expired |-> FALSE,
     held_before |-> 0, raised |-> FALSE, wrote |-> FALSE, stats_before |-> stats]

\* line 139: the set just made was one that writes the file
Wrote(self) == ~self.use_redis /\ self.stats.sets % PersistEvery = 0

\* history of the latest set per key that returned True: what it stored
NoteSet(h, key, value, ttl_seconds, ret) ==
    IF ret = PyTrue
    THEN Put(h, key, [value |-> value, forever |-> ~Truthy(ttl_seconds)])
    ELSE Del(h, {key})

\* history of how far the file lags, kept when stale.on: for each time h a
\* restart could happen at, the number of mutating calls made since the map,
\* without the entries expired at h, last equalled what a load of the file at h
\* gives (counted up to PersistEvery); and whether a write of the file ever failed
Unexpired(mc, h) ==
    Del(mc, {k \in DOMAIN mc : mc[k].expiry_iso.some /\ mc[k].expiry_iso.v.iso <= h})
Loaded(self, h) == _load_from_disk([self EXCEPT !.memory_cache = EmptyDict], h).memory_cache
NoLag == [on |-> FALSE, lag |-> <<>>, write_failed |-> FALSE]
TrackLag(horizons) == [on |-> TRUE, lag |-> [h \in horizons |-> 0], write_failed |-> FALSE]
Lag(old, self, t, mutating, failed) ==
    IF ~old.on
    THEN old
    ELSE [on |-> TRUE,
          lag |-> [h \in DOMAIN old.lag |->
                    IF h < t \/ Unexpired(self.memory_cache, h) = Loaded(self, h)
                    THEN 0
                    ELSE IF mutating /\ old.lag[h] < PersistEvery
                         THEN old.lag[h] + 1
                         ELSE old.lag[h]],
          write_failed |-> old.write_failed \/ failed]

InitCache(backends, lag) ==
    /\ use_redis \in backends
    /\ memory_cache = EmptyDict
    /\ redis_db = EmptyDict
    /\ stats = [hits |-> 0, misses |-> 0, sets |-> 0]
    /\ disk_file = [state |-> "missing", data |-> EmptyDict]
    /\ now = 0
    /\ last = Call("init", <<"query", 1>>, NoneV, IoOk)
    /\ latest_set = EmptyDict
    /\ stale = lag

IdleConc ==
    /\ th = <<>>
    /\ acked = EmptyDict
IdleDetector == det = NoneV
IdleStore == vs = NoneV

Tick ==
    /\ now < MaxNow
    /\ now' = now + 1
    /\ last' = Call("tick", <<"query", 1>>, NoneV, IoOk)
    /\ stale' = Lag(stale, Self, now + 1, FALSE, FALSE)
    /\ UNCHANGED <<use_redis, memory_cache, redis_db, stats, disk_file, latest_set>>
    /\ UNCHANGED <<th, acked, det, vs>>

CallSet(key, value, ttl_seconds, io) ==
    \E r \in {set(Self, key, value, ttl_seconds, now, io)} :
        /\ Store(r.self)
        /\ last' = [Call("set", key, r.ret, io) EXCEPT
                        !.ttl_forever = ~Truthy(ttl_seconds),
                        !.wrote = Wrote(r.self)]
        /\ latest_set' = NoteSet(latest_set, key, value, ttl_seconds, r.ret)
        /\ stale' = Lag(stale, r.self, now, TRUE, Wrote(r.self) /\ io.disk # "ok")

CallGet(key, io) ==
    \E r \in {get(Self, key, now, io)} :
        /\ Store(r.self)
        /\ last' = [Call("get", key, r.ret, io) EXCEPT
                        !.was_expired = /\ ~use_redis
                                        /\ key \in DOMAIN memory_cache
                                        /\ memory_cache[key].expiry_iso.some
                                        /\ memory_cache[key].expiry_iso.v.iso <= now]
        /\ stale' = Lag(stale, r.self, now, FALSE, FALSE)
        /\ UNCHANGED latest_set

CallDelete(key, io) ==
    \E r \in {delete(Self, key, now, io)} :
        /\ Store(r.self)
        /\ last' = Call("delete", key, r.ret, io)
        /\ latest_set' = Del(latest_set, {key})
        /\ stale' = Lag(stale, r.self, now, r.ret = PyTrue, FALSE)

CallClear(pattern, io) ==
    \E r \in {clear(Self, pattern, now, io)} :
        /\ Store(r.self)
        /\ last' = [Call("clear", <<"query", 1>>, r.ret, io) EXCEPT
                        !.no_pattern = ~pattern.some,
                        !.held_before = Cardinality(Held(Self, now))]
        /\ latest_set' = Del(latest_set, {k \in DOMAIN latest_set :
                                            pattern.some => StartsWith(k, pattern.v)})
        /\ stale' = Lag(stale, r.self, now, Held(r.self, now) # Held(Self, now), FALSE)

CallDetectProphet(params, outcome, io) ==
    \E r \in {detect_prophet(Self, params, outcome, now, io)} :
        LET key == _generate_key("anomaly", params)
            stored == r.self.stats.sets # stats.sets
        IN  /\ Store(r.self)
            /\ last' = [Call("detect_prophet", key, r.ret, io) EXCEPT
                            !.raised = (r.status = 500),
                            !.wrote = stored /\ Wrote(r.self)]
            /\ latest_set' = IF stored
                             THEN NoteSet(latest_set, key, r.ret.v, Some(ProphetTTL), r.set_ret)
                             ELSE latest_set
            /\ stale' = Lag(stale, r.self, now, stored, stored /\ Wrote(r.self) /\ io.disk # "ok")

CallClearQueryCache(io) ==
    \E r \in {clear_query_cache(Self, now, io)} :
        LET gone == {k \in Held(Self, now) : StartsWith(k, "query") \/ StartsWith(k, "sql")}
        IN  /\ Store(r.self)
            /\ last' = [Call("clear_query_cache", <<"query", 1>>, r.ret, io) EXCEPT
                            !.held_before = Cardinality(gone),
                            !.raised = r.raised,
                            !.wrote = ~use_redis]
            /\ latest_set' = Del(latest_set, gone)
            /\ stale' = Lag(stale, r.self, now, gone # {}, ~use_redis /\ io.disk # "ok")

CallClearAnomalyCache(io) ==
    \E r \in {clear_anomaly_cache(Self, now, io)} :
        LET gone == {k \in Held(Self, now) : StartsWith(k, "anomaly")}
        IN  /\ Store(r.self)
            /\ last' = [Call("clear_anomaly_cache", <<"anomaly", 1>>, r.ret, io) EXCEPT
                            !.held_before = Cardinality(gone),
                            !.raised = r.raised,
                            !.wrote = ~use_redis]
            /\ latest_set' = Del(latest_set, gone)
            /\ stale' = Lag(stale, r.self, now, gone # {}, ~use_redis /\ io.disk # "ok")

\* the process dies and a new one starts: __init__ (lines 29-37, 54-58) builds an
\* empty object and loads the file the old process left
Restart ==
    \E r \in {_load_from_disk([NewCache(FALSE) EXCEPT !.disk = disk_file], now)} :
        /\ ~use_redis
        /\ Store(r)
        /\ last' = [Call("restart", <<"query", 1>>, NoneV, IoOk) EXCEPT
                        !.held_before = IF stale.on THEN stale.lag[now] ELSE 0]
        /\ latest_set' = EmptyDict
        /\ stale' = Lag(stale, r, now, FALSE, FALSE)

-----------------------------------------------------------------------------
(* SpecCache: the cache API called one call at a time, on either backend.   *)

ApiKeys == {<<"query", 1>>, <<"anomaly", 1>>}
ApiData == {1, 2}
ApiTTLs == {NoneV, Some(0), Some(1)}
ApiPatterns == {NoneV, Some("anomaly")}
DetectorOutcomes ==
    {[raised |-> TRUE, data |-> 1]} \cup {[raised |-> FALSE, data |-> d] : d \in ApiData}
RedisIos == {[redis |-> r, disk |-> "ok"] : r \in RedisOutcomes}

InitApi == InitCache(BOOLEAN, NoLag) /\ IdleConc /\ IdleDetector /\ IdleStore

ApiSet ==
    \E key \in ApiKeys, d \in ApiData, ttl \in ApiTTLs, io \in RedisIos :
        stats.sets < MaxSets /\ CallSet(key, Result(d, FALSE), ttl, io)
ApiGet ==
    \E key \in ApiKeys, io \in RedisIos :
        stats.hits + stats.misses < MaxGets /\ CallGet(key, io)
ApiDelete == \E key \in ApiKeys, io \in RedisIos : CallDelete(key, io)
ApiClear == \E pattern \in ApiPatterns, io \in RedisIos : CallClear(pattern, io)

ApiDetectProphet ==
    \E outcome \in DetectorOutcomes, io \in RedisIos :
        /\ stats.sets < MaxSets
        /\ stats.hits + stats.misses < MaxGets
        /\ CallDetectProphet(1, outcome, io)

NextCache == Tick \/ ApiSet \/ ApiGet \/ ApiDelete \/ ApiClear \/ ApiDetectProphet

SpecCache == InitApi /\ [][NextCache]_vars

-----------------------------------------------------------------------------
(* Claims about the cache API (SpecCache). *)

\* C3: on the in-process cache a get(key) made at or after the entry's expiry
\* time returns None and removes the entry from memory_cache.
C3_ExpiredGetMissesAndEvicts ==
    (last.op = "get" /\ last.was_expired)
        => (last.ret = NoneV /\ last.key \notin DOMAIN memory_cache)

\* a get met an entry whose expiry time is exactly now, and missed
C3_Witness ==
    /\ last.op = "get"
    /\ last.was_expired
    /\ last.ret = NoneV
    /\ last.key \in DOMAIN latest_set
    /\ ~latest_set[last.key].forever

\* C4: on either backend, set(key, v, ttl) with ttl None or 0 succeeds, and every
\* later get(key) returns v until the key is deleted or cleared.
C4_NoTtlNeverExpires ==
    /\ (last.op = "set" /\ last.ttl_forever /\ ~last.outage) => last.ret = PyTrue
    /\ (/\ last.op = "get"
        /\ ~last.outage
        /\ last.key \in DOMAIN latest_set
        /\ latest_set[last.key].forever)
           => last.ret = Some(latest_set[last.key].value)

\* C5: clear() with no pattern returns the number of entries it removed, on the
\* Redis backend as on the in-process one.
C5_ClearReturnsCount ==
    (last.op = "clear" /\ last.no_pattern /\ ~last.outage)
        => last.ret.n = last.held_before

\* C6: a stored result is never changed afterwards: the entry under a key holds,
\* and a get(key) returns, the value passed to the latest set(key), however many
\* hits were served and tagged in between.
C6_StoredResultNeverChanges ==
    /\ \A k \in DOMAIN latest_set :
          /\ (~use_redis /\ k \in DOMAIN memory_cache)
                => memory_cache[k].value = latest_set[k].value
          /\ (use_redis /\ k \in DOMAIN redis_db)
                => loads(redis_db[k].value) = latest_set[k].value
    /\ (last.op = "get" /\ last.ret.some /\ last.key \in DOMAIN latest_set)
          => last.ret.v = latest_set[last.key].value

-----------------------------------------------------------------------------
(* SpecPersist: the in-process cache and the writes of its file, which may   *)
(* fail.  SpecCrash: the in-process cache through crashes and restarts of    *)
(* the process, every write of the file succeeding.                          *)

PersistKeys == {<<"query", 1>>, <<"anomaly", 1>>}
DiskIos == {[redis |-> "ok", disk |-> d] : d \in DiskOutcomes}

InitPersist == InitCache({FALSE}, NoLag) /\ IdleConc /\ IdleDetector /\ IdleStore

\* the outcome of the write matters to the sets that write
PersistSet ==
    \E key \in PersistKeys, io \in DiskIos :
        /\ stats.sets < PersistEvery
        /\ Wrote(set(Self, key, Result(1, FALSE), NoneV, now, io).self) \/ io = IoOk
        /\ CallSet(key, Result(1, FALSE), NoneV, io)
PersistDelete == \E key \in PersistKeys : CallDelete(key, IoOk)
PersistClearQueryCache == \E io \in DiskIos : CallClearQueryCache(io)
PersistClearAnomalyCache == \E io \in DiskIos : CallClearAnomalyCache(io)

NextPersist ==
    \/ PersistSet
    \/ PersistDelete
    \/ PersistClearQueryCache
    \/ PersistClearAnomalyCache
    \/ Restart

SpecPersist == InitPersist /\ [][NextPersist]_vars

CrashTimes == {0, 1}
CrashTTLs == {NoneV, Some(1)}

InitCrash == InitCache({FALSE}, TrackLag(CrashTimes)) /\ IdleConc /\ IdleDetector /\ IdleStore

CrashTick == now + 1 \in CrashTimes /\ Tick
CrashSet ==
    \E key \in PersistKeys, ttl \in CrashTTLs :
        stats.sets < PersistEvery /\ CallSet(key, Result(1, FALSE), ttl, IoOk)
CrashClear == CallClear(NoneV, IoOk)

NextCrash ==
    \/ CrashTick
    \/ CrashSet
    \/ PersistDelete
    \/ CrashClear
    \/ Restart

SpecCrash == InitCrash /\ [][NextCrash]_vars

-----------------------------------------------------------------------------
(* Claims about the cache file (SpecCrash, SpecPersist). *)

\* C7: after a crash and restart the contents loaded from the file equal the
\* in-memory contents of some moment at most 9 mutating calls (set, delete,
\* clear) before the crash, without the entries that have expired.  Stated for
\* the runs in which every write of the file succeeded.
C7_RestartLosesAtMostNineCalls ==
    (last.op = "restart" /\ ~stale.write_failed) => last.held_before <= PersistEvery - 1

\* C8: when the write of the file fails, the set, clear_query_cache or
\* clear_anomaly_cache that made it returns its normal result, memory_cache holds
\* the update and no exception reaches the caller.
C8_FailedWriteDoesNotFailTheCall ==
    (last.wrote /\ last.disk # "ok") =>
        /\ ~last.raised
        /\ last.op = "set" =>
              /\ last.ret = PyTrue
              /\ last.key \in DOMAIN memory_cache
              /\ memory_cache[last.key].value = latest_set[last.key].value
        /\ last.op \in {"clear_query_cache", "clear_anomaly_cache"} =>
              /\ last.ret = PyInt(last.held_before)
              /\ \A k \in DOMAIN memory_cache :
                    StartsWith(k, "anomaly") = (last.op = "clear_query_cache")

\* the tenth set of a process wrote the file, the write failed half way, and the
\* set returned True
C8_Witness ==
    /\ last.op = "set"
    /\ last.wrote
    /\ last.disk = "fail_write"
    /\ disk_file.state = "corrupt"
    /\ last.ret = PyTrue

-----------------------------------------------------------------------------
(* SpecCleanup: an in-process cache that loaded FillerEntries never-expiring *)
(* entries from its file when the process started, so that a few more sets   *)
(* take it over CleanupThreshold.                                            *)

Fillers ==
    [k \in {"sql"} \X (1..FillerEntries) |-> [value |-> Result(1, FALSE), expiry_iso |-> NoneV]]
CleanupKeys == {<<"query", 1>>, <<"query", 2>>, <<"query", 3>>}
CleanupTTLs == {NoneV, Some(1)}

InitCleanup ==
    /\ use_redis = FALSE
    /\ disk_file = [state |-> "ok", data |-> Fillers]
    /\ memory_cache = _load_from_disk([NewCache(FALSE) EXCEPT !.disk = disk_file], 0).memory_cache
    /\ redis_db = EmptyDict
    /\ stats = [hits |-> 0, misses |-> 0, sets |-> 0]
    /\ now = 0
    /\ last = Call("init", <<"query", 1>>, NoneV, IoOk)
    /\ latest_set = EmptyDict
    /\ stale = NoLag
    /\ IdleConc /\ IdleDetector /\ IdleStore

CleanupSet ==
    \E key \in CleanupKeys, ttl \in CleanupTTLs :
        stats.sets < MaxCleanupSets /\ CallSet(key, Result(1, FALSE), ttl, IoOk)
CleanupDelete == \E key \in CleanupKeys : CallDelete(key, IoOk)

NextCleanup == Tick \/ CleanupSet \/ CleanupDelete

SpecCleanup == InitCleanup /\ [][NextCleanup]_vars

\* C9: after a set on the in-process cache that leaves more than 1000 entries
\* in memory_cache, no entry of it has an expiry time at or before now.
C9_NoExpiredEntryAboveThreshold ==
    (last.op = "set" /\ ~use_redis /\ len(memory_cache) > CleanupThreshold) =>
        \A k \in DOMAIN memory_cache :
            ~(memory_cache[k].expiry_iso.some /\ memory_cache[k].expiry_iso.v.iso <= now)

\* a set left 1001 entries after its sweep removed an entry that had expired
C9_Witness ==
    /\ last.op = "set"
    /\ len(memory_cache) > CleanupThreshold
    /\ \E k \in DOMAIN latest_set :
          /\ k \notin DOMAIN memory_cache
          /\ ~latest_set[k].forever

-----------------------------------------------------------------------------
(* AnomalyDetector.detect_all_anomalies (services/anomaly_detection.py).     *)

\* lines 826-857: the six sub-detector calls, in the order they are made
SubDetectors ==
    <<"time_series_daily", "time_series_monthly", "statistical_products",
      "statistical_customers", "comparative_yoy", "comparative_mom">>

\* what one sub-detector does when called: it raises (the database query
\* fails), or it returns a result dict with this list of anomalies
AnomalyLists == {<<>>, <<"anomaly">>}
SubOutcomes ==
    {[raised |-> TRUE, anomalies |-> <<>>]}
        \cup {[raised |-> FALSE, anomalies |-> a] : a \in AnomalyLists}

\* the dict a sub-detector returns (lines 127, 262, 417)
SubResult(outcome) == [anomalies |-> outcome.anomalies]

\* lines 860-863: sum(len(result.get("anomalies", [])) for the results)
RECURSIVE total_anomalies(_, _)
total_anomalies(anomaly_types, names) ==
    IF names = {}
    THEN 0
    ELSE LET d == CHOOSE x \in names : TRUE
         IN  Len(anomaly_types[d].anomalies) + total_anomalies(anomaly_types, names \ {d})

\* lines 813-877: one try block around the six calls and the summary; the first
\* exception leaves the block, and the except clause writes the summary
detect_all_anomalies(outcomes) ==
    LET n == Len(SubDetectors)
        failing == {i \in 1..n : outcomes[SubDetectors[i]].raised}
        first == IF failing = {} THEN n + 1
                 ELSE CHOOSE i \in failing : \A j \in failing : i <= j
        ran == {SubDetectors[i] : i \in 1..(first - 1)}
        anomaly_types == [d \in ran |-> SubResult(outcomes[d])]
    IN  [anomaly_types |-> anomaly_types,
         summary |-> IF failing = {}
                     THEN [status |-> "success",
                           total_anomalies |-> total_anomalies(anomaly_types, ran),
                           detection_methods |-> Cardinality(ran)]
                     ELSE [status |-> "error", error |-> SubDetectors[first]]]

-----------------------------------------------------------------------------
(* SpecDetect: GET /anomalies/all (main.py:206-220) called again and again,  *)
(* each sub-detector raising or returning as the database lets it.           *)

InitDetect == InitCache({FALSE}, NoLag) /\ IdleConc /\ IdleDetector /\ IdleStore

CallDetectAll ==
    \E outcomes \in [{SubDetectors[i] : i \in 1..Len(SubDetectors)} -> SubOutcomes] :
        /\ det' = Some([outcomes |-> outcomes, response |-> detect_all_anomalies(outcomes)])
        /\ UNCHANGED <<cache_vars, th, acked, vs>>

NextDetect == CallDetectAll

SpecDetect == InitDetect /\ [][NextDetect]_vars

\* C1: when a sub-detector raises, the sub-detectors that do not raise still run
\* and their results are in anomaly_types, and the summary's status reports a
\* partial success rather than the failure of the whole call.
C1_FailureIsolatedPerSubDetector ==
    det.some =>
        LET outcomes == det.v.outcomes
            response == det.v.response
            names == DOMAIN outcomes
        IN  /\ \A d \in names :
                  ~outcomes[d].raised =>
                      /\ d \in DOMAIN response.anomaly_types
                      /\ response.anomaly_types[d] = SubResult(outcomes[d])
            /\ ((\E d \in names : outcomes[d].raised) /\ (\E d \in names : ~outcomes[d].raised))
                  => response.summary.status \notin {"success", "error"}

-----------------------------------------------------------------------------
(* SpecConc: threads calling the in-process cache at the same time.  The     *)
(* cache takes no lock around memory_cache (only _save_to_disk holds         *)
(* _save_lock), so a call is a sequence of steps, each one access to the     *)
(* dict, and the steps of different threads interleave.  The entry a thread  *)
(* read, and the key it works on, are its locals.                            *)

ConcThreads == {1, 2}
ConcKeys == {<<"query", 1>>}
ConcTTLs == {NoneV, Some(1)}

NoEntry == [value |-> Result(1, FALSE), expiry_iso |-> NoneV]
IdleThread == [pc |-> "idle", key |-> <<"query", 1>>, entry |-> NoEntry]

InitConc ==
    /\ InitCache({FALSE}, NoLag)
    /\ th = [t \in ConcThreads |-> IdleThread]
    /\ acked = EmptyDict
    /\ IdleDetector
    /\ IdleStore

\* the thread moves to its next line, or its call returns
Goto(t, pc, key, entry) == th' = [th EXCEPT ![t] = [pc |-> pc, key |-> key, entry |-> entry]]
Return(t) == th' = [th EXCEPT ![t] = IdleThread]
Miss == stats' = [stats EXCEPT !.misses = @ + 1]

\* line 89: `if key in self.memory_cache`; lines 98-99 when it is not
GetCheck(t, key) ==
    /\ th[t].pc = "idle"
    /\ stats.hits + stats.misses < MaxGets
    /\ IF key \in DOMAIN memory_cache
       THEN Goto(t, "get_read", key, NoEntry) /\ UNCHANGED stats
       ELSE Return(t) /\ Miss
    /\ UNCHANGED <<use_redis, memory_cache, redis_db, disk_file, now, last, latest_set, stale>>
    /\ UNCHANGED <<acked, det, vs>>

\* line 90: `value, expiry_iso = self.memory_cache[key]`; a KeyError, when the
\* key has gone since line 89, is caught at lines 101-104
GetRead(t) ==
    /\ th[t].pc = "get_read"
    /\ IF th[t].key \in DOMAIN memory_cache
       THEN Goto(t, "get_test", th[t].key, memory_cache[th[t].key]) /\ UNCHANGED stats
       ELSE Return(t) /\ Miss
    /\ UNCHANGED <<use_redis, memory_cache, redis_db, disk_file, now, last, latest_set, stale>>
    /\ UNCHANGED <<acked, det, vs>>

\* lines 91-93: the entry read is served when it has not expired
GetTest(t) ==
    /\ th[t].pc = "get_test"
    /\ IF IsFresh(th[t].entry.expiry_iso, now)
       THEN Return(t) /\ stats' = [stats EXCEPT !.hits = @ + 1]
       ELSE Goto(t, "get_del", th[t].key, th[t].entry) /\ UNCHANGED stats
    /\ UNCHANGED <<use_redis, memory_cache, redis_db, disk_file, now, last, latest_set, stale>>
    /\ UNCHANGED <<acked, det, vs>>

\* lines 96-99: `del self.memory_cache[key]` removes whatever the key holds now;
\* a KeyError is caught at lines 101-104; either way a miss is counted
GetDel(t) ==
    /\ th[t].pc = "get_del"
    /\ memory_cache' = Del(memory_cache, {th[t].key})
    /\ Miss
    /\ Return(t)
    /\ UNCHANGED <<use_redis, redis_db, disk_file, now, last, latest_set, stale>>
    /\ UNCHANGED <<acked, det, vs>>

\* lines 119 and 131-132: the count and the store of the entry
SetStore(t, key, value, ttl_seconds) ==
    \E entry \in {[value |-> value, expiry_iso |-> ExpiryOf(ttl_seconds, now)]} :
        /\ th[t].pc = "idle"
        /\ stats.sets < MaxSets
        /\ stats' = [stats EXCEPT !.sets = @ + 1]
        /\ memory_cache' = Put(memory_cache, key, entry)
        /\ Goto(t, "set_finish", key, entry)
        /\ acked' = Put(acked, key, [entry |-> entry, by |-> t, returned |-> FALSE])
        /\ UNCHANGED <<use_redis, redis_db, disk_file, now, last, latest_set, stale>>
        /\ UNCHANGED <<det, vs>>

\* lines 135-142: the sweep, the write of the file, `return True`
SetFinish(t) ==
    \E mc \in {IF len(memory_cache) > CleanupThreshold
               THEN _cleanup_memory_cache(memory_cache, now)
               ELSE memory_cache} :
        /\ th[t].pc = "set_finish"
        /\ memory_cache' = mc
        /\ disk_file' = IF stats.sets % PersistEvery = 0
                        THEN _save_to_disk([Self EXCEPT !.memory_cache = mc], "ok").self.disk
                        ELSE disk_file
        /\ acked' = IF th[t].key \in DOMAIN acked /\ acked[th[t].key].by = t
                    THEN [acked EXCEPT ![th[t].key].returned = TRUE]
                    ELSE acked
        /\ Return(t)
        /\ UNCHANGED <<use_redis, redis_db, stats, now, last, latest_set, stale>>
        /\ UNCHANGED <<det, vs>>

\* line 153: `if key in self.memory_cache`; line 156 when it is not
DeleteCheck(t, key) ==
    /\ th[t].pc = "idle"
    /\ IF key \in DOMAIN memory_cache
       THEN Goto(t, "delete_del", key, NoEntry)
       ELSE Return(t)
    /\ UNCHANGED <<cache_vars, acked, det, vs>>

\* lines 154-155: `del self.memory_cache[key]`; a KeyError is caught at 157-158
DeleteDel(t) ==
    /\ th[t].pc = "delete_del"
    /\ memory_cache' = Del(memory_cache, {th[t].key})
    /\ acked' = Del(acked, {th[t].key})
    /\ Return(t)
    /\ UNCHANGED <<use_redis, redis_db, stats, disk_file, now, last, latest_set, stale>>
    /\ UNCHANGED <<det, vs>>

\* lines 189-191: clear() with no pattern, `self.memory_cache.clear()`
ClearAll(t) ==
    /\ th[t].pc = "idle"
    /\ memory_cache # EmptyDict
    /\ memory_cache' = EmptyDict
    /\ acked' = EmptyDict
    /\ UNCHANGED <<use_redis, redis_db, stats, disk_file, now, last, latest_set, stale>>
    /\ UNCHANGED <<th, det, vs>>

ConcGetCheck == \E t \in ConcThreads, key \in ConcKeys : GetCheck(t, key)
ConcGetRead == \E t \in ConcThreads : GetRead(t)
ConcGetTest == \E t \in ConcThreads : GetTest(t)
ConcGetDel == \E t \in ConcThreads : GetDel(t)
ConcSetStore ==
    \E t \in ConcThreads, key \in ConcKeys, ttl \in ConcTTLs :
        SetStore(t, key, Result(t, FALSE), ttl)
ConcSetFinish == \E t \in ConcThreads : SetFinish(t)
ConcDeleteCheck == \E t \in ConcThreads, key \in ConcKeys : DeleteCheck(t, key)
ConcDeleteDel == \E t \in ConcThreads : DeleteDel(t)
ConcClearAll == \E t \in ConcThreads : ClearAll(t)

NextConc ==
    \/ Tick
    \/ ConcGetCheck
    \/ ConcGetRead
    \/ ConcGetTest
    \/ ConcGetDel
    \/ ConcSetStore
    \/ ConcSetFinish
    \/ ConcDeleteCheck
    \/ ConcDeleteDel
    \/ ConcClearAll

SpecConc == InitConc /\ [][NextConc]_vars

\* C2: under any interleaving of concurrent calls on the in-process cache, once
\* set(key, v) has returned True the entry it stored stays in memory_cache until
\* it expires, a later set replaces it, or a delete or clear removes it; a get
\* that read the previous, expired entry does not remove it.
C2_NoLostUpdate ==
    \A k \in DOMAIN acked :
        (acked[k].returned /\ IsFresh(acked[k].entry.expiry_iso, now))
            => (k \in DOMAIN memory_cache /\ memory_cache[k] = acked[k].entry)

-----------------------------------------------------------------------------
(* VectorStore (services/vector_store.py): the collection of query examples  *)
(* and the ids add_query_example gives them.                                 *)

\* line 63: f"query_{len(self.collection.get()['ids'])}_{datetime.now().timestamp()}",
\* the number of examples in the collection and the reading of the clock
doc_id(ids, t) == <<"query", Cardinality(ids), t>>

\* what collection.add does with an id the collection already holds: it raises,
\* or it keeps the old document and returns (the behaviour differs by version)
DuplicateOutcomes == {"raise", "ignore"}

\* __init__ (lines 14-41) on an empty persist directory; callers holds the id
\* each caller has generated and not yet added; issued and returned are history:
\* every id an add has returned, and the id and novelty of the last one; deleted
\* is what the last call, when it was a delete, was given and answered
NewStore ==
    [ids |-> {}, callers |-> [c \in ConcThreads |-> NoneV], issued |-> {},
     returned |-> NoneV, deleted |-> NoneV]

\* line 63: the caller generates the id
AddGenerate(c) ==
    /\ vs.v.callers[c] = NoneV
    /\ Cardinality(vs.v.ids) + Cardinality({d \in ConcThreads : vs.v.callers[d].some})
          < MaxExamples
    /\ vs' = Some([vs.v EXCEPT !.callers[c] = Some(doc_id(vs.v.ids, now))])
    /\ UNCHANGED <<cache_vars, th, acked, det>>

\* lines 66-85: the embedding, collection.add and `return doc_id`; when add
\* raises, the caller gets the exception and no id
AddInsert(c, duplicate) ==
    /\ vs.v.callers[c].some
    /\ \E id \in {vs.v.callers[c].v} :
          IF id \in vs.v.ids /\ duplicate = "raise"
          THEN vs' = Some([vs.v EXCEPT !.callers[c] = NoneV, !.returned = NoneV,
                                       !.deleted = NoneV])
          ELSE vs' = Some([vs.v EXCEPT !.callers[c] = NoneV,
                                       !.deleted = NoneV,
                                       !.ids = @ \cup {id},
                                       !.issued = @ \cup {id},
                                       !.returned = Some([id |-> id,
                                                          issued_before |-> id \in vs.v.issued])])
    /\ UNCHANGED <<cache_vars, th, acked, det>>

\* lines 156-170: collection.delete(ids=[doc_id]) removes the document when the
\* collection holds the id and does nothing, without raising, when it does not;
\* `return True` follows either way.  main.py:599-620 answers 200 on True and
\* 404 on False.
delete_example(id) ==
    /\ vs' = Some([vs.v EXCEPT !.ids = @ \ {id}, !.returned = NoneV,
                               !.deleted = Some([id |-> id, ret |-> PyTrue, status |-> 200,
                                                 held |-> id \in vs.v.ids])])
    /\ UNCHANGED <<cache_vars, th, acked, det>>

\* lines 172-188
clear_all ==
    /\ vs.v.ids # {}
    /\ vs' = Some([vs.v EXCEPT !.ids = {}, !.returned = NoneV, !.deleted = NoneV])
    /\ UNCHANGED <<cache_vars, th, acked, det>>

-----------------------------------------------------------------------------
(* SpecStore: callers adding, deleting and clearing examples while the clock *)
(* advances.                                                                 *)

InitStore ==
    /\ InitCache({FALSE}, NoLag)
    /\ IdleConc
    /\ IdleDetector
    /\ vs = Some(NewStore)

StoreAddGenerate == \E c \in ConcThreads : AddGenerate(c)
StoreAddInsert == \E c \in ConcThreads, duplicate \in DuplicateOutcomes : AddInsert(c, duplicate)
\* the id of a stored example, or one the store issued before, or never issued
StoreDelete == \E id \in vs.v.ids \cup vs.v.issued \cup {doc_id({}, 0)} : delete_example(id)

NextStore == Tick \/ StoreAddGenerate \/ StoreAddInsert \/ StoreDelete \/ clear_all

SpecStore == InitStore /\ [][NextStore]_vars

\* C10: every id add_query_example returns differs from every id the store
\* issued earlier, whatever adds, deletes and clears came before, and whether
\* adds ran at the same time or at the same reading of the clock.
C10_IdsNeverReissued ==
    (vs.some /\ vs.v.returned.some) => ~vs.v.returned.v.issued_before

\* C11: delete_example(id) returns False and leaves the store as it is when no
\* stored document has that id, and returns True only when it removed one.
C11_DeleteUnknownReturnsFalse ==
    (vs.some /\ vs.v.deleted.some) =>
        /\ (vs.v.deleted.v.ret = PyTrue) <=> vs.v.deleted.v.held
        /\ vs.v.deleted.v.id \notin vs.v.ids

-----------------------------------------------------------------------------
(* VectorStore, its documents: what add_query_example stores, what           *)
(* search_similar_queries finds and what bulk_add_examples counts.  The      *)
(* collection is a map from id to the document's question and intent.        *)

\* line 66 / 105: embedding_model.encode(question), a vector; the same text gives
\* the same vector and different texts give different ones
encode(question) == <<question>>

\* the distance collection.query ranks by (squared L2, the collection's default)
distance(a, b) == (a[1] - b[1]) * (a[1] - b[1])

\* collection.query(query_embeddings, n_results, where): the ids of the documents
\* that pass the where filter, nearest first, at most n_results of them; documents
\* at the same distance come in either order, so this is the set of the answers
\* the collection may give
collection_query(docs, query_embedding, n_results, where_filter) ==
    LET candidates == {id \in DOMAIN docs :
                          where_filter.some => docs[id].intent = where_filter.v}
        m == IF n_results < Cardinality(candidates) THEN n_results
             ELSE Cardinality(candidates)
        d(id) == distance(encode(docs[id].question), query_embedding)
    IN  {r \in [1..m -> candidates] :
            /\ \A i, j \in 1..m : i < j => (r[i] # r[j] /\ d(r[i]) <= d(r[j]))
            /\ \A c \in candidates :
                  (\A i \in 1..m : r[i] # c) => \A i \in 1..m : d(r[i]) <= d(c)}

\* search_similar_queries that never builds the where filter of lines 108-110
search_IgnoresIntentFilter(docs, question, n_results, intent_filter) ==
    {[i \in DOMAIN r |->
        [id |-> r[i], question |-> docs[r[i]].question, intent |-> docs[r[i]].intent,
         distance |-> distance(encode(docs[r[i]].question), encode(question))]] :
     r \in collection_query(docs, encode(question), n_results, NoneV)}

\* lines 87-132: the lists the method may return, one per answer of the collection
search_similar_queries(docs, question, n_results, intent_filter) ==
    {[i \in DOMAIN r |->
        [id |-> r[i], question |-> docs[r[i]].question, intent |-> docs[r[i]].intent,
         distance |-> distance(encode(docs[r[i]].question), encode(question))]] :
     r \in collection_query(docs, encode(question), n_results, intent_filter)}

\* lines 43-85, made in one go: the new collection and the id returned, or the
\* exception of collection.add on an id the collection holds
add_query_example(docs, question, intent, t, duplicate) ==
    LET id == doc_id(DOMAIN docs, t)
    IN  IF id \in DOMAIN docs
        THEN [docs |-> docs, raised |-> duplicate = "raise",
              ret |-> IF duplicate = "raise" THEN NoneV ELSE Some(id)]
        ELSE [docs |-> Put(docs, id, [question |-> question, intent |-> intent]),
              raised |-> FALSE, ret |-> Some(id)]

\* lines 212-236: each element in turn; example['question'] and example['sql']
\* raise KeyError on a malformed element, inside the try, like a failed add
RECURSIVE bulk_add_examples(_, _, _, _)
bulk_add_examples(docs, examples, t, duplicate) ==
    IF examples = <<>>
    THEN [docs |-> docs, count |-> 0]
    ELSE LET example == Head(examples)
             malformed == ~example.question.some \/ ~example.sql.some
             a == IF malformed
                  THEN [docs |-> docs, raised |-> TRUE, ret |-> NoneV]
                  ELSE add_query_example(docs, example.question.v, example.intent, t, duplicate)
             rest == bulk_add_examples(a.docs, Tail(examples), t, duplicate)
         IN  [docs |-> rest.docs, count |-> rest.count + (IF a.raised THEN 0 ELSE 1)]

-----------------------------------------------------------------------------
(* SpecIndex: examples added one by one and in bulk, deleted and searched,   *)
(* one call at a time, while the clock advances.  vs holds the collection,   *)
(* the last call with what it returned, and, as history, the id and question *)
(* of the add that has just returned.                                        *)

IndexQuestions == {1, 2}
IndexIntents == {"sales", "trend"}
\* the elements a bulk list is made of: well formed, or one key missing
IndexExamples ==
    {[question |-> Some(q), sql |-> Some(1), intent |-> "sales"] : q \in IndexQuestions}
        \cup {[question |-> NoneV, sql |-> Some(1), intent |-> "sales"],
              [question |-> Some(1), sql |-> NoneV, intent |-> "sales"]}

IndexCall(op) ==
    [op |-> op, question |-> 1, k |-> 0, intent_filter |-> NoneV, ret |-> <<>>,
     count |-> 0, before |-> 0, matching |-> 0, wellformed |-> 0, raised |-> FALSE]

InitIndex ==
    /\ InitCache({FALSE}, NoLag)
    /\ IdleConc
    /\ IdleDetector
    /\ vs = Some([docs |-> EmptyDict, added |-> NoneV, last |-> IndexCall("init")])

\* POST /vector-store/add (main.py:506-531)
IndexAdd ==
    \E question \in IndexQuestions, intent \in IndexIntents, duplicate \in DuplicateOutcomes :
        \E a \in {add_query_example(vs.v.docs, question, intent, now, duplicate)} :
            /\ len(vs.v.docs) < MaxExamples
            /\ vs' = Some([docs |-> a.docs,
                           added |-> IF a.ret.some
                                     THEN Some([id |-> a.ret.v, question |-> question])
                                     ELSE NoneV,
                           last |-> [IndexCall("add") EXCEPT !.question = question,
                                                             !.before = len(vs.v.docs),
                                                             !.raised = a.raised]])
            /\ UNCHANGED <<cache_vars, th, acked, det>>

\* POST /vector-store/search (main.py:534-559), n_results from 1
IndexSearch ==
    \E question \in IndexQuestions, n_results \in 1..(MaxExamples + 1),
       intent_filter \in {NoneV, Some("sales")} :
        \E ret \in search_similar_queries(vs.v.docs, question, n_results, intent_filter) :
            /\ vs' = Some([vs.v EXCEPT !.last =
                        [IndexCall("search") EXCEPT
                            !.question = question, !.k = n_results,
                            !.intent_filter = intent_filter, !.ret = ret,
                            !.before = len(vs.v.docs),
                            !.matching = Cardinality({id \in DOMAIN vs.v.docs :
                                intent_filter.some => vs.v.docs[id].intent = intent_filter.v})]])
            /\ UNCHANGED <<cache_vars, th, acked, det>>

\* DELETE /vector-store/example/{doc_id}, of a stored example
IndexDelete ==
    \E id \in DOMAIN vs.v.docs :
        /\ vs' = Some([docs |-> Del(vs.v.docs, {id}), added |-> NoneV,
                       last |-> [IndexCall("delete") EXCEPT !.before = len(vs.v.docs)]])
        /\ UNCHANGED <<cache_vars, th, acked, det>>

\* bulk_add_examples with a list of one or two elements
IndexBulkAdd ==
    \E examples \in {<<e>> : e \in IndexExamples}
                        \cup {<<e, f>> : e \in IndexExamples, f \in IndexExamples},
       duplicate \in DuplicateOutcomes :
        \E b \in {bulk_add_examples(vs.v.docs, examples, now, duplicate)} :
            /\ len(vs.v.docs) + Len(examples) <= MaxExamples
            /\ vs' = Some([docs |-> b.docs, added |-> NoneV,
                           last |-> [IndexCall("bulk_add") EXCEPT
                                        !.count = b.count,
                                        !.before = len(vs.v.docs),
                                        !.wellformed = Cardinality({i \in DOMAIN examples :
                                            examples[i].question.some /\ examples[i].sql.some})]])
            /\ UNCHANGED <<cache_vars, th, acked, det>>

NextIndex == CrashTick \/ IndexAdd \/ IndexSearch \/ IndexDelete \/ IndexBulkAdd

SpecIndex == InitIndex /\ [][NextIndex]_vars

C13_AddThenSearchFindsIt ==
    (/\ vs.some
     /\ vs.v.last.op = "search"
     /\ vs.v.last.k = 1
     /\ ~vs.v.last.intent_filter.some
     /\ vs.v.added.some
     /\ vs.v.last.question = vs.v.added.v.question)
        => /\ Len(vs.v.last.ret) = 1
           /\ vs.v.last.ret[1].id = vs.v.added.v.id
           /\ vs.v.last.ret[1].distance = 0

\* C14: bulk_add_examples goes through its whole list, skipping the malformed
\* elements and the failed adds, and returns the number of examples by which
\* the store grew, which is at most the number of well-formed elements.
C14_BulkAddCountsGrowth ==
    (vs.some /\ vs.v.last.op = "bulk_add") =>
        /\ vs.v.last.count = len(vs.v.docs) - vs.v.last.before
        /\ vs.v.last.count <= vs.v.last.wellformed

-----------------------------------------------------------------------------
(* The detectors of services/anomaly_detection.py, each as a function of the *)
(* rows its query returns.  Metric values are integers.  A float the code    *)
(* computes is a fraction num/den (den > 0), NaN, or an infinity with the    *)
(* sign in num; a standard deviation is kept as its square.                  *)

NaN == [kind |-> "nan", num |-> 0, den |-> 1]
Abs(n) == IF n < 0 THEN -n ELSE n
\* float division n / d as numpy does it: x/0 is +-inf, 0/0 is NaN, no exception
fdiv(n, d) ==
    IF d # 0 THEN [kind |-> "finite", num |-> IF d < 0 THEN -n ELSE n, den |-> Abs(d)]
    ELSE IF n = 0 THEN NaN
    ELSE [kind |-> "inf", num |-> IF n < 0 THEN -1 ELSE 1, den |-> 1]
\* abs(x) > t and abs(x) >= t for a float x and an integer t; False on NaN
AbsGt(x, t) == x.kind = "inf" \/ (x.kind = "finite" /\ Abs(x.num) > t * x.den)
AbsGe(x, t) == x.kind = "inf" \/ (x.kind = "finite" /\ Abs(x.num) >= t * x.den)

RECURSIVE SeqSum(_)
SeqSum(xs) == IF xs = <<>> THEN 0 ELSE Head(xs) + SeqSum(Tail(xs))

\* Series.std() (ddof = 1), squared: sum((n*x - S)^2) / (n^2 * (n - 1)); NaN for
\* a single value
std_squared(xs) ==
    LET n == Len(xs)
        S == SeqSum(xs)
    IN  IF n < 2 THEN NaN
        ELSE fdiv(SeqSum([i \in 1..n |-> (n * xs[i] - S) * (n * xs[i] - S)]), n * n * (n - 1))

\* abs((x - mean) / std) > t, lines 192-193: both sides squared and cleared of
\* denominators; False when std is NaN or the quotient is 0/0
ZScoreExceeds(x, xs, t) ==
    LET n == Len(xs)
        S == SeqSum(xs)
        var == std_squared(xs)
    IN  /\ var.kind = "finite"
        /\ IF var.num = 0 THEN n * x # S
           ELSE (n * x - S) * (n * x - S) * (n - 1) > t * t * var.num

\* anomaly_detection.py:16, self.zscore_threshold = 3.0
zscore_threshold == 3
\* line 234, `if len(df) >= 10`
MinForestRows == 10
\* line 682, `if len(df) < 14`
MinProphetDays == 14

\* lines 154-159 and 448-473: the keys of dimension_map and of dimension_config
dimension_map == {"ProductKey", "CustomerKey", "SalesTerritoryKey", "PromotionKey"}
dimension_config == {"ProductKey", "CustomerKey", "TerritoryKey", "PromotionKey"}

\* the z-score branch with the division by std left out of line 192
zscore_NotDividedByStd(values) ==
    {i \in DOMAIN values :
        Abs(Len(values) * values[i] - SeqSum(values)) > zscore_threshold * Len(values)}

\* lines 189-193: the rows the z-score branch flags
zscore_anomalies(values) ==
    {i \in DOMAIN values : ZScoreExceeds(values[i], values, zscore_threshold)}

\* The dict a detector returns, or the exception it raises: keys are the keys of
\* the dict, anomalies the entries of "anomalies" (the row and the float
\* reported for it), statistics the floats of "statistics" that the model
\* computes, data the PercentChange column of "comparison_data" / "all_data",
\* dimension the dimension the dict names (None when it names none).
Response(keys, anomalies, statistics, data, dimension) ==
    [raised |-> FALSE, keys |-> keys, anomalies |-> anomalies, statistics |-> statistics,
     data |-> data, dimension |-> dimension]
Raises == [raised |-> TRUE, keys |-> {}, anomalies |-> {}, statistics |-> <<>>,
           data |-> <<>>, dimension |-> NoneV]

\* lines 134-267 for the methods "zscore" and "isolation_forest"; values are the
\* MetricValue of the rows, forest the rows IsolationForest marks -1.  The
\* statistics kept are mean_value and std_dev, the float of an anomaly is its
\* deviation from the mean.
detect_statistical_anomalies(dimension, method, values, forest) ==
    LET used == IF dimension \notin dimension_map THEN "ProductKey" ELSE dimension
        n == Len(values)
        flagged == IF method = "zscore" THEN zscore_anomalies(values)
                   ELSE IF n >= MinForestRows THEN forest
                   ELSE {}
    IN  IF values = <<>>
        THEN Response({"anomalies", "statistics", "method"}, {}, <<>>, <<>>, NoneV)
        ELSE Response({"anomalies", "statistics", "method", "dimension"},
                      {[row |-> i, value |-> fdiv(n * values[i] - SeqSum(values), n)] : i \in flagged},
                      <<fdiv(SeqSum(values), n), std_squared(values)>>, <<>>, Some(used))

\* line 385: (CurrentValue - PreviousValue) / PreviousValue * 100 in pandas
PercentChange(row) == fdiv((row.cur - row.prev) * 100, row.prev)

\* lines 269-422; rows are the periods the query returns (its WHERE clause
\* leaves out the periods with no previous one), each with cur and prev.
detect_comparative_anomalies(comparison_type, threshold_pct, rows) ==
    IF comparison_type \notin {"yoy", "mom", "wow", "qoq"} THEN Raises
    ELSE IF rows = <<>>
    THEN Response({"anomalies", "statistics", "method"}, {}, <<>>, <<>>, NoneV)
    ELSE Response({"anomalies", "statistics", "method", "comparison_data"},
                  {[row |-> i, value |-> PercentChange(rows[i])] :
                      i \in {j \in DOMAIN rows : AbsGt(PercentChange(rows[j]), threshold_pct)}},
                  <<fdiv(Len(rows), 1)>>,
                  [i \in DOMAIN rows |-> PercentChange(rows[i])], NoneV)

\* lines 523-527: the CASE expression of the query for the metric SalesAmount;
\* a NULL reaches pandas as NaN
CasePercentChange(row) == IF row.prev > 0 THEN PercentChange(row) ELSE NaN

\* lines 424-630 for the metric SalesAmount.  The ORDER BY of line 532 divides
\* by NULLIF(PreviousValue, 1), which is 0 for a previous value of 0: with
\* ANSI_WARNINGS on (the ODBC default) SQL Server fails the query with error
\* 8134 and pd.read_sql raises, with it off the quotient is NULL.
detect_day_on_day_anomalies(dimension, threshold_pct, rows, ansi_warnings) ==
    LET used == IF dimension \notin dimension_config THEN "ProductKey" ELSE dimension
    IN  IF ansi_warnings /\ \E i \in DOMAIN rows : rows[i].prev = 0 THEN Raises
        ELSE IF rows = <<>>
        THEN Response({"anomalies", "statistics", "method", "dimension"}, {}, <<>>, <<>>, Some(used))
        ELSE Response({"anomalies", "statistics", "method", "all_data"},
                      {[row |-> i, value |-> CasePercentChange(rows[i])] :
                          i \in {j \in DOMAIN rows : AbsGe(CasePercentChange(rows[j]), threshold_pct)}},
                      <<fdiv(Len(rows), 1)>>,
                      [i \in DOMAIN rows |-> CasePercentChange(rows[i])], Some(used))

\* lines 632-811; days is len(df), outside the days whose actual value Prophet's
\* forecast leaves outside its interval, each with actual and predicted; the
\* float of an anomaly is deviation_pct (line 728)
detect_prophet_anomalies(installed, days, outside) ==
    IF ~installed \/ days < MinProphetDays
    THEN Response({"error", "anomalies", "statistics"}, {}, <<>>, <<>>, NoneV)
    ELSE Response({"anomalies", "future_forecast", "statistics", "method", "model_info"},
                  {[row |-> i,
                    value |-> IF outside[i].predicted # 0
                              THEN fdiv((outside[i].actual - outside[i].predicted) * 100,
                                        outside[i].predicted)
                              ELSE fdiv(0, 1)] : i \in DOMAIN outside},
                  <<fdiv(days, 1)>>, <<>>, NoneV)

(* The detectors called, one call at a time, with every combination of a few *)
(* arguments and query results; det is the call in progress and its result.  *)

\* most rows a query returns here, besides the two fixed results below
MaxRows == 2
\* the groups of the five-group example and a result long enough for the forest
FiveGroups == <<10, 12, 11, 9, 1000>>
ManyGroups == [i \in 1..MinForestRows |-> IF i = 1 THEN 1000 ELSE 10]
SeqsUpTo(S, n) == UNION {[1..k -> S] : k \in 0..n}
Dimensions == dimension_map \cup dimension_config \cup {"Color"}
Periods == [cur : {0, 4, 5}, prev : {0, 4, 5}]
Thresholds == {1, 20}

InitDetectors ==
    /\ InitCache({FALSE}, NoLag)
    /\ IdleConc
    /\ det = NoneV
    /\ vs = NoneV

DetectStatistical ==
    \E dimension \in Dimensions, method \in {"zscore", "isolation_forest"},
       values \in SeqsUpTo({10, 1000}, MaxRows) \cup {FiveGroups, ManyGroups},
       forest \in {{}, {1}} :
        /\ det = NoneV
        /\ UNCHANGED <<cache_vars, th, acked, vs>>
        /\ det' = Some([detector |-> "statistical", dimension |-> dimension, method |-> method,
                values |-> values, forest |-> forest,
                response |-> detect_statistical_anomalies(dimension, method, values, forest)])

DetectComparative ==
    \E comparison_type \in {"yoy", "daily"}, threshold_pct \in Thresholds,
       rows \in SeqsUpTo(Periods, MaxRows) :
        /\ det = NoneV
        /\ UNCHANGED <<cache_vars, th, acked, vs>>
        /\ det' = Some([detector |-> "comparative", comparison_type |-> comparison_type,
                threshold_pct |-> threshold_pct, rows |-> rows,
                response |-> detect_comparative_anomalies(comparison_type, threshold_pct, rows)])

DetectDayOnDay ==
    \E dimension \in Dimensions, threshold_pct \in Thresholds,
       rows \in SeqsUpTo(Periods, MaxRows), ansi_warnings \in BOOLEAN :
        /\ det = NoneV
        /\ UNCHANGED <<cache_vars, th, acked, vs>>
        /\ det' = Some([detector |-> "day_on_day", dimension |-> dimension,
                threshold_pct |-> threshold_pct, rows |-> rows, ansi_warnings |-> ansi_warnings,
                response |-> detect_day_on_day_anomalies(dimension, threshold_pct, rows,
                                                         ansi_warnings)])

DetectProphet ==
    \E installed \in BOOLEAN, days \in {0, MinProphetDays - 1, MinProphetDays},
       outside \in SeqsUpTo([actual : {5}, predicted : {0, 4}], 1) :
        /\ det = NoneV
        /\ UNCHANGED <<cache_vars, th, acked, vs>>
        /\ det' = Some([detector |-> "prophet", installed |-> installed, days |-> days,
                outside |-> outside,
                response |-> detect_prophet_anomalies(installed, days, outside)])

\* the endpoint hands the response to its caller (main.py:206-220)
DetectReturn ==
    /\ det # NoneV
    /\ det' = NoneV
    /\ UNCHANGED <<cache_vars, th, acked, vs>>

NextDetectors ==
    DetectStatistical \/ DetectComparative \/ DetectDayOnDay \/ DetectProphet \/ DetectReturn
SpecDetectors == InitDetectors /\ [][NextDetectors]_vars

\* C15: a detector that cannot run for want of data (no rows, fewer than
\* MinForestRows groups for the isolation forest, fewer than MinProphetDays days
\* for the forecast) returns without raising a dict that carries a reason.
C15_InsufficientDataCarriesReason ==
    (/\ det.some
     /\ \/ det.v.detector = "statistical" /\ det.v.values = <<>>
        \/ /\ det.v.detector = "statistical" /\ det.v.method = "isolation_forest"
           /\ Len(det.v.values) < MinForestRows
        \/ det.v.detector = "comparative" /\ det.v.comparison_type = "yoy" /\ det.v.rows = <<>>
        \/ det.v.detector = "day_on_day" /\ det.v.rows = <<>>
        \/ det.v.detector = "prophet" /\ det.v.installed /\ det.v.days < MinProphetDays)
    => /\ ~det.v.response.raised
       /\ det.v.response.keys \cap {"error", "reason", "message", "warning"} # {}

\* C16: the statistical and the day-on-day detector, called with a dimension
\* their table does not hold, return a dict that differs from the one the same
\* call returns for the default dimension "ProductKey".
C16_SubstitutedDimensionIsMarked ==
    /\ (det.some /\ det.v.detector = "statistical" /\ det.v.dimension \notin dimension_map)
       => det.v.response # detect_statistical_anomalies("ProductKey", det.v.method,
                                                        det.v.values, det.v.forest)
    /\ (det.some /\ det.v.detector = "day_on_day" /\ det.v.dimension \notin dimension_config
        /\ ~det.v.response.raised)
       => det.v.response # detect_day_on_day_anomalies("ProductKey", det.v.threshold_pct,
                                                       det.v.rows, det.v.ansi_warnings)

\* C17: the comparative detector reports no period whose previous value is 0,
\* and every percent_change it reports is the finite number
\* (current - previous) / previous * 100.
C17_ComparativeNeverDividesByZero ==
    (det.some /\ det.v.detector = "comparative" /\ ~det.v.response.raised) =>
        \A a \in det.v.response.anomalies :
            /\ det.v.rows[a.row].prev # 0
            /\ a.value.kind = "finite"
            /\ a.value.num * det.v.rows[a.row].prev
                   = (det.v.rows[a.row].cur - det.v.rows[a.row].prev) * 100 * a.value.den

\* C18: a day-on-day call whose rows hold one with previous value 0 and a
\* positive current value does not raise, gives that row no percent change and
\* does not report it, whatever the threshold.
C18_DayOnDayZeroPreviousIsSkipped ==
    (det.some /\ det.v.detector = "day_on_day") =>
        \A i \in DOMAIN det.v.rows :
            (det.v.rows[i].prev = 0 /\ det.v.rows[i].cur > 0) =>
                /\ ~det.v.response.raised
                /\ det.v.response.data[i] = NaN
                /\ \A a \in det.v.response.anomalies : a.row # i

\* C19: every float in the dict a detector returns (in its anomalies, its
\* statistics and its comparison_data / all_data) is finite.
C19_ReturnedFloatsAreFinite ==
    det.some =>
        /\ \A a \in det.v.response.anomalies : a.value.kind = "finite"
        /\ \A i \in DOMAIN det.v.response.statistics : det.v.response.statistics[i].kind = "finite"
        /\ \A i \in DOMAIN det.v.response.data : det.v.response.data[i].kind = "finite"

\* C20: for the groups A:10, B:12, C:11, D:9, E:1000 the z-score method with
\* threshold 3.0 flags E and no other group.
C20_FiveGroupsFlagE ==
    (det.some /\ det.v.detector = "statistical" /\ det.v.method = "zscore"
     /\ det.v.values = FiveGroups)
    => {a.row : a \in det.v.response.anomalies} = {5}

\* C20 as the code has it: for these five groups the z-score method flags no
\* group, E's z-score being (n - 1) / sqrt(n) = 1.79 at most for n = 5.
C20_FiveGroupsFlagNone ==
    (det.some /\ det.v.detector = "statistical" /\ det.v.method = "zscore"
     /\ det.v.values = FiveGroups)
    => det.v.response.anomalies = {}

C20_Witness ==
    /\ det.some /\ det.v.detector = "statistical" /\ det.v.method = "zscore"
    /\ det.v.values = FiveGroups
    /\ det.v.response.statistics[2].kind = "finite"
    /\ det.v.response.statistics[2].num > 0

-----------------------------------------------------------------------------
(* detect_time_series_anomalies (anomaly_detection.py:24-132) as a function  *)
(* of the MetricValue column its query returns, in exact arithmetic.         *)

\* x > mean + k * std or x < mean - k * std over the values xs (lines 86-87,
\* 93-96): with n = len, S = sum and std squared = num / (n * n * (n - 1)) this
\* is (n*x - S)^2 * (n - 1) > k^2 * num; False when std is NaN.  The mutant
\* takes one standard deviation whatever k is.
OutsideBounds_OneStd(x, xs, k) ==
    /\ std_squared(xs).kind = "finite"
    /\ (Len(xs) * x - SeqSum(xs)) * (Len(xs) * x - SeqSum(xs)) * (Len(xs) - 1)
           > std_squared(xs).num
OutsideBounds(x, xs, k) ==
    /\ std_squared(xs).kind = "finite"
    /\ (Len(xs) * x - SeqSum(xs)) * (Len(xs) * x - SeqSum(xs)) * (Len(xs) - 1)
           > k * k * std_squared(xs).num

\* the values the bounds of row i are taken over, with a window of 3 rows at
\* most (the mutant)
TsWindow_Narrow(values, i) ==
    LET window == IF Len(values) \div 3 < 3 THEN Len(values) \div 3 ELSE 3
        hi == i + (window - 1) \div 2
    IN  IF window < 2 THEN values
        ELSE IF hi - window + 1 < 1 \/ hi > Len(values) THEN <<>>
        ELSE SubSeq(values, hi - window + 1, hi)
\* lines 81-91: window = min(7, len(df) // 3); rolling(window, center=True) gives
\* row i the window that ends (window - 1) // 2 rows after it, and NaN (here no
\* values) when that window is not whole; below 2 the whole column is used
TsWindow(values, i) ==
    LET window == IF Len(values) \div 3 < 7 THEN Len(values) \div 3 ELSE 7
        hi == i + (window - 1) \div 2
    IN  IF window < 2 THEN values
        ELSE IF hi - window + 1 < 1 \/ hi > Len(values) THEN <<>>
        ELSE SubSeq(values, hi - window + 1, hi)

\* lines 72-132; the float of an anomaly is its deviation from MA, statistics
\* holds mean_value and std_dev, data the MA column of time_series_data
detect_time_series_anomalies(values) ==
    LET MA(i) == fdiv(SeqSum(TsWindow(values, i)), Len(TsWindow(values, i)))
        flagged == {i \in DOMAIN values : OutsideBounds(values[i], TsWindow(values, i), 2)}
    IN  IF values = <<>>
        THEN Response({"anomalies", "statistics", "method"}, {}, <<>>, <<>>, NoneV)
        ELSE Response({"anomalies", "statistics", "method", "time_series_data"},
                      {[row |-> i,
                        type |-> IF Len(TsWindow(values, i)) * values[i] > SeqSum(TsWindow(values, i))
                                 THEN "spike" ELSE "drop",
                        value |-> fdiv(Len(TsWindow(values, i)) * values[i]
                                           - SeqSum(TsWindow(values, i)),
                                       Len(TsWindow(values, i)))] : i \in flagged},
                      <<fdiv(SeqSum(values), Len(values)), std_squared(values)>>,
                      [i \in DOMAIN values |-> MA(i)], NoneV)

\* longest series of every combination of two values, and longest series with
\* one raised value
MaxSeries == 7
MaxPeriods == 19
\* a series of n values 100 whose p-th is 500
OneSpike(n, p) == [i \in 1..n |-> IF i = p THEN 500 ELSE 100]

InitSeries == InitDetectors

\* GET /anomalies/time-series (main.py:223-243)
DetectTimeSeries ==
    \E values \in SeqsUpTo({100, 500}, MaxSeries)
                     \cup {OneSpike(n, p) : n \in 1..MaxPeriods, p \in 1..MaxPeriods}
                     \cup {OneSpike(30, 15)} :
        /\ det = NoneV
        /\ UNCHANGED <<cache_vars, th, acked, vs>>
        /\ det' = Some([detector |-> "time_series", values |-> values,
                        response |-> detect_time_series_anomalies(values)])

NextSeries == DetectTimeSeries \/ DetectReturn
SpecSeries == InitSeries /\ [][NextSeries]_vars

\* C21: for 30 daily values 100 with the 15th 500, the detector reports day 15
\* alone, as a spike whose deviation is about 400 (within a tenth of it).
C21_SpikeDeviationAbout400 ==
    (det.some /\ det.v.detector = "time_series" /\ det.v.values = OneSpike(30, 15)) =>
        /\ {a.row : a \in det.v.response.anomalies} = {15}
        /\ \A a \in det.v.response.anomalies :
              /\ a.type = "spike"
              /\ a.value.kind = "finite"
              /\ 360 * a.value.den <= a.value.num
              /\ a.value.num <= 440 * a.value.den

\* C21 as the code has it: day 15 alone is reported, as a spike whose deviation
\* from the moving average 1100 / 7 of its own window is 2400 / 7 (about 343).
C21_SpikeDeviationFromOwnWindow ==
    (det.some /\ det.v.detector = "time_series" /\ det.v.values = OneSpike(30, 15)) =>
        /\ {a.row : a \in det.v.response.anomalies} = {15}
        /\ \A a \in det.v.response.anomalies :
              /\ a.type = "spike"
              /\ a.value.kind = "finite"
              /\ 7 * a.value.num = 2400 * a.value.den

C21_Witness ==
    /\ det.some /\ det.v.detector = "time_series" /\ det.v.values = OneSpike(30, 15)
    /\ det.v.response.anomalies # {}

\* C30: a series of fewer than 18 periods has no anomaly reported, whatever its
\* values.
C30_ShortSeriesNeverFlagged ==
    (det.some /\ det.v.detector = "time_series" /\ Len(det.v.values) < 18)
    => det.v.response.anomalies = {}

\* a series of 15 periods, window 5, whose 8th value stands out of a whole window
C30_Witness ==
    /\ det.some /\ det.v.detector = "time_series" /\ det.v.values = OneSpike(15, 8)
    /\ det.v.response.data[8].kind = "finite"
    /\ det.v.response.anomalies = {}

-----------------------------------------------------------------------------
\* C26: every get() adds one to exactly one of hits and misses, also when the
\* Redis server fails it, and every set() adds one to sets, whatever it returns.
C26_EveryGetCountsOnce ==
    /\ last.op = "get" =>
          /\ stats.hits + stats.misses = last.stats_before.hits + last.stats_before.misses + 1
          /\ stats.hits >= last.stats_before.hits
          /\ stats.misses >= last.stats_before.misses
          /\ stats.sets = last.stats_before.sets
          /\ last.ret.some <=> stats.hits = last.stats_before.hits + 1
    /\ last.op = "set" =>
          /\ stats.sets = last.stats_before.sets + 1
          /\ stats.hits = last.stats_before.hits
          /\ stats.misses = last.stats_before.misses

\* a get() that the Redis server failed, after a get() that hit
C26_Witness ==
    /\ last.op = "get" /\ last.outage
    /\ stats.hits = 1 /\ stats.misses = 1

-----------------------------------------------------------------------------
(* RAGService.query with execute=True (services/rag_service.py).  A SQL text *)
(* is a string; what the model answers and whether the database runs a text  *)
(* are inputs of the call.                                                   *)

\* the loop with three corrections allowed
max_retries_Three == 2 + 1
\* rag_service.py:357
max_retries == 2

\* lines 244-321: the result served from the SQL cache, or the outcome of
\* running the text (run is "ok" or "fail"); a success is cached for an hour.
\* A served dict gets the tag sql_cache_hit, in the in-process cache too.
execute_query(self, sql, run, t, io) ==
    LET key == _generate_key("sql", sql)
        g == get(self, key, t, io)
        ok == [success |-> TRUE, error |-> NoneV, data |-> Some(sql), sql_cache_hit |-> FALSE]
    IN  IF g.ret.some
        THEN [self |-> IF self.use_redis THEN g.self
                       ELSE [g.self EXCEPT !.memory_cache[key].value.sql_cache_hit = TRUE],
              result |-> [g.ret.v EXCEPT !.sql_cache_hit = TRUE]]
        ELSE IF run = "ok"
        THEN [self |-> set(g.self, key, ok, Some(3600), t, io).self, result |-> ok]
        ELSE [self |-> g.self,
              result |-> [success |-> FALSE, error |-> Some(sql), data |-> NoneV,
                          sql_cache_hit |-> FALSE]]

\* lines 359-384, from the given attempt on.  acc holds the cache, the result
\* dict so far, the executions made (tried) and the corrections asked for;
\* fixes[i] is the i-th answer of _retry_with_error (None: it raises), runs[i]
\* the outcome of the i-th execution.
RECURSIVE retry_loop(_, _, _, _, _, _, _)
retry_loop(acc, current_sql, attempt, fixes, runs, t, io) ==
    LET e == execute_query(acc.self, current_sql, runs[attempt + 1], t, io)
        a1 == [acc EXCEPT !.self = e.self,
                          !.tried = Append(@, [sql |-> current_sql, success |-> e.result.success])]
        updated == [a1 EXCEPT !.result.success = Some(e.result.success),
                              !.result.error = e.result.error,
                              !.result.data = e.result.data,
                              !.result.sql_cache_hit = e.result.sql_cache_hit]
    IN  IF e.result.success
        THEN [updated EXCEPT !.result.sql = current_sql, !.result.retries = attempt]
        ELSE IF attempt < max_retries
        THEN IF fixes[attempt + 1].some
             THEN retry_loop([a1 EXCEPT !.asked = @ + 1, !.result.retries = attempt + 1],
                             fixes[attempt + 1].v, attempt + 1, fixes, runs, t, io)
             ELSE [updated EXCEPT !.asked = @ + 1]
        ELSE updated

\* lines 335-385: the cache lookup, generate_sql (gen is the text the model
\* gives, None when the call to it raises) and the loop.  served: the result
\* came from the query cache; raised: generate_sql raised.
query(self, question, gen, fixes, runs, t, io) ==
    LET key == _generate_key("query", question)
        g == get(self, key, t, io)
        start == [self |-> g.self, tried |-> <<>>, asked |-> 0, served |-> FALSE,
                  raised |-> FALSE,
                  result |-> [question |-> question, sql |-> IF gen.some THEN gen.v ELSE "",
                              intent |-> "general_query", cached |-> FALSE, retries |-> 0,
                              success |-> NoneV, error |-> NoneV, data |-> NoneV,
                              sql_cache_hit |-> FALSE]]
    IN  IF g.ret.some
        THEN [start EXCEPT !.self = TagServedHit(g.self, key), !.served = TRUE,
                           !.result = [g.ret.v EXCEPT !.cached = TRUE]]
        ELSE IF ~gen.some THEN [start EXCEPT !.raised = TRUE]
        ELSE retry_loop(start, gen.v, 0, fixes, runs, t, io)

\* lines 406-409: _auto_learn goes on to add the question
novel(docs, question) ==
    \A similar \in search_similar_queries(docs, question, 1, NoneV) :
        similar = <<>> \/ ~(10 * similar[1].distance < 1)

(* Threads calling query on the one RAGService of the process.  A call takes *)
(* two steps: everything up to the search of _auto_learn, then the add, the  *)
(* write to the query cache and the return.  vs holds the index, the last    *)
(* call that returned, the number of calls begun, and whether an example was *)
(* auto-learned next to a stored one.                                        *)

\* calls of query begun in a behaviour
MaxQueries == 2
RagQuestions == {1, 2}
RagTexts == {NoneV, Some("s0"), Some("s1")}

InitRag ==
    /\ InitCache({FALSE}, NoLag)
    /\ th = [c \in ConcThreads |-> NoneV]
    /\ acked = EmptyDict
    /\ IdleDetector
    /\ vs = Some([docs |-> EmptyDict, last |-> NoneV, calls |-> 0, close |-> FALSE])

\* lines 335-391 and 406-409
QueryStart ==
    \E c \in ConcThreads, question \in RagQuestions, gen \in {NoneV, Some("s0")},
       fixes \in [1..max_retries -> RagTexts], runs \in [1..max_retries + 1 -> {"ok", "fail"}] :
        /\ ~th[c].some
        /\ vs.v.calls < MaxQueries
        /\ \E r \in {query(Self, question, gen, fixes, runs, now, IoOk)} :
              /\ use_redis' = r.self.use_redis
              /\ memory_cache' = r.self.memory_cache
              /\ redis_db' = r.self.redis
              /\ stats' = r.self.stats
              /\ disk_file' = r.self.disk
              /\ th' = [th EXCEPT ![c] =
                            Some([question |-> question, gen |-> gen, result |-> r.result,
                                  tried |-> r.tried, asked |-> r.asked, served |-> r.served,
                                  raised |-> r.raised,
                                  learn |-> /\ ~r.served
                                            /\ r.result.success = Some(TRUE)
                                            /\ novel(vs.v.docs, question)])]
        /\ vs' = Some([vs.v EXCEPT !.calls = @ + 1])
        /\ UNCHANGED <<now, last, latest_set, stale, acked, det>>

\* lines 411-416 and 393-399
QueryFinish ==
    \E c \in ConcThreads, duplicate \in DuplicateOutcomes :
        /\ th[c].some
        /\ \E a \in {IF th[c].v.learn
                     THEN add_query_example(vs.v.docs, th[c].v.question, th[c].v.result.intent,
                                            now, duplicate)
                     ELSE [docs |-> vs.v.docs, raised |-> FALSE, ret |-> NoneV]},
              s \in {IF th[c].v.served \/ th[c].v.raised THEN Self
                     ELSE set(Self, _generate_key("query", th[c].v.question), th[c].v.result,
                              Some(3600), now, IoOk).self} :
              /\ use_redis' = s.use_redis
              /\ memory_cache' = s.memory_cache
              /\ redis_db' = s.redis
              /\ stats' = s.stats
              /\ disk_file' = s.disk
              /\ vs' = Some([vs.v EXCEPT
                                !.docs = a.docs,
                                !.last = Some(th[c].v),
                                !.close = @ \/ (a.docs # vs.v.docs
                                                /\ ~novel(vs.v.docs, th[c].v.question))])
        /\ th' = [th EXCEPT ![c] = NoneV]
        /\ UNCHANGED <<now, last, latest_set, stale, acked, det>>

NextRag == CrashTick \/ QueryStart \/ QueryFinish
SpecRag == InitRag /\ [][NextRag]_vars

\* C22: a call that reaches the loop returns after at most 3 executions and at
\* most 2 requests for a correction; only its last execution can have
\* succeeded, and retries is the number of corrected texts it executed.
C22_RetriesAreBounded ==
    (vs.some /\ vs.v.last.some /\ ~vs.v.last.v.served /\ ~vs.v.last.v.raised) =>
        LET call == vs.v.last.v
            n == Len(call.tried)
        IN  /\ 1 <= n /\ n <= 3
            /\ call.asked <= 2
            /\ \A i \in 1..(n - 1) : ~call.tried[i].success
            /\ call.result.success = Some(call.tried[n].success)
            /\ call.result.retries = n - 1

\* a call whose third execution, of the second corrected text, succeeded
C22_Witness ==
    /\ vs.some /\ vs.v.last.some /\ ~vs.v.last.v.served /\ ~vs.v.last.v.raised
    /\ Len(vs.v.last.v.tried) = 3
    /\ vs.v.last.v.result.success = Some(TRUE)
    /\ vs.v.last.v.result.retries = 2

\* C23: the sql of the result is the text of the call's last execution, whether
\* it succeeded or failed.
C23_SqlIsLastExecuted ==
    (vs.some /\ vs.v.last.some /\ ~vs.v.last.v.served /\ ~vs.v.last.v.raised) =>
        vs.v.last.v.result.sql = vs.v.last.v.tried[Len(vs.v.last.v.tried)].sql

\* C24: the query cache holds successful results only, and a result served from
\* it is a success.
C24_CacheHoldsNoFailure ==
    /\ \A key \in DOMAIN memory_cache :
          key[1] = "query" => memory_cache[key].value.success = Some(TRUE)
    /\ (vs.some /\ vs.v.last.some /\ vs.v.last.v.served)
          => vs.v.last.v.result.success = Some(TRUE)

\* C25: no example is auto-learned while the index holds one at a distance
\* below 0.1 of it.
C25_NoNearDuplicateLearned ==
    vs.some => ~vs.v.close

-----------------------------------------------------------------------------
(* DatabaseConnectionPool (services/db_pool.py) and its callers in RAGService.
   In this part vs holds the pool: the queue self.pool of connection ids, the
   counter active_connections, the holder of self.lock (0 when free) and every
   connection made so far, by the pool or by RAGService's direct fallback, with
   whether it is still open and whether it still answers SELECT 1.  th holds
   each thread's position in get_connection and the connection it was handed. *)

\* the constructor's max_connections (line 21); get_connection_pool passes 10
max_connections == 2

\* connections the database accepts over a run
MaxConns == 4

Connection(pooled) == [open |-> TRUE, valid |-> TRUE, pooled |-> pooled]

\* conn.close(), or the last reference to the connection going away
Closed(conn) == [conn EXCEPT !.open = FALSE, !.valid = FALSE]

\* with self.lock: a threading.Lock (line 38), which its own holder cannot take again
acquire(self, c) == self.lock = 0

\* lines 60-71: the counter is raised under the lock, then pyodbc.connect runs
\* and may raise; conn = 0 stands for the exception
_create_connection(self, connected) ==
    [self |-> [self EXCEPT !.active_connections = @ + 1,
                           !.lock = 0,
                           !.conns = IF connected THEN Append(@, Connection(TRUE)) ELSE @],
     conn |-> IF connected THEN Len(self.conns) + 1 ELSE 0]

\* lines 73-81: SELECT 1 on the connection
_validate_connection(self, conn) == self.conns[conn].open /\ self.conns[conn].valid

\* lines 131-163: a valid connection goes back to the queue unless it is full;
\* any other is closed and taken off the counter
return_connection(self, conn) ==
    IF conn = 0 THEN self
    ELSE IF _validate_connection(self, conn) /\ Len(self.pool) < max_connections
    THEN [self EXCEPT !.pool = Append(@, conn)]
    ELSE [self EXCEPT !.conns[conn] = Closed(@), !.active_connections = @ - 1]

\* lines 165-178: the queued connections are closed and the counter is zeroed
close_all(self) ==
    [self EXCEPT !.conns = [i \in DOMAIN @ |->
                               IF \E k \in DOMAIN self.pool : self.pool[k] = i
                               THEN Closed(@[i]) ELSE @[i]],
                 !.pool = <<>>,
                 !.active_connections = 0]

\* the threads of the server that use the pool
PoolThreads == {1, 2, 3}

NoCall == [pc |-> "idle", conn |-> 0]

\* lines 21-58: min_connections calls of _create_connection, the failed ones
\* logged; each of them has raised the counter
InitPool ==
    /\ InitCache({FALSE}, NoLag)
    /\ acked = EmptyDict
    /\ IdleDetector
    /\ th = [c \in PoolThreads |-> NoCall]
    /\ \E min_connections \in 0..max_connections, created \in 0..max_connections :
          /\ created <= min_connections
          /\ vs = Some([pool |-> [i \in 1..created |-> i],
                        active_connections |-> min_connections,
                        lock |-> 0,
                        conns |-> [i \in 1..created |-> Connection(TRUE)]])

PoolStep(c, thread, self) ==
    /\ th' = [th EXCEPT ![c] = thread]
    /\ vs' = Some(self)
    /\ UNCHANGED <<cache_vars, acked, det>>

\* lines 96-99: total_requests is counted under the lock
GetConnection ==
    \E c \in PoolThreads :
        /\ th[c] = NoCall
        /\ acquire(vs.v, c)
        /\ PoolStep(c, [th[c] EXCEPT !.pc = "get"], vs.v)

\* lines 101-116: self.pool.get(block=True, timeout); a queued connection that
\* validates is returned, a stale one is dropped; Empty once the timeout passed
PoolGet ==
    \E c \in PoolThreads :
        /\ th[c].pc = "get"
        /\ IF vs.v.pool = <<>>
           THEN PoolStep(c, [th[c] EXCEPT !.pc = "empty"], vs.v)
           ELSE \E conn \in {Head(vs.v.pool)}, self \in {[vs.v EXCEPT !.pool = Tail(@)]} :
                   IF _validate_connection(self, conn)
                   THEN PoolStep(c, [pc |-> "idle", conn |-> conn], self)
                   ELSE PoolStep(c, [th[c] EXCEPT !.pc = "stale"],
                                 [self EXCEPT !.conns[conn] = Closed(@)])

\* lines 112-114: the stale connection is taken off the counter
StaleReplace ==
    \E c \in PoolThreads :
        /\ th[c].pc = "stale"
        /\ acquire(vs.v, c)
        /\ PoolStep(c, [th[c] EXCEPT !.pc = "create"],
                    [vs.v EXCEPT !.active_connections = @ - 1])

\* lines 117-129: under the lock, below the maximum a connection is created
\* (the lock is still held when _create_connection is entered); at the maximum
\* the call is repeated with the time that is left, or raises
PoolEmpty ==
    \E c \in PoolThreads, elapsed \in {"left", "over"} :
        /\ th[c].pc = "empty"
        /\ acquire(vs.v, c)
        /\ IF vs.v.active_connections < max_connections
           THEN PoolStep(c, [th[c] EXCEPT !.pc = "create"], [vs.v EXCEPT !.lock = c])
           ELSE PoolStep(c, [th[c] EXCEPT !.pc = IF elapsed = "left" THEN "get" ELSE "raised"],
                         vs.v)

\* lines 60-71, entered from line 115 or line 121
CreateConnection ==
    \E c \in PoolThreads, connected \in BOOLEAN :
        /\ th[c].pc = "create"
        /\ acquire(vs.v, c)
        /\ connected => Len(vs.v.conns) < MaxConns
        /\ \E r \in {_create_connection(vs.v, connected)} :
              PoolStep(c, IF connected THEN [pc |-> "idle", conn |-> r.conn]
                                       ELSE [th[c] EXCEPT !.pc = "raised"], r.self)

\* rag_service.py lines 50-53: when the pool raised, RAGService connects itself
DirectConnect ==
    \E c \in PoolThreads, connected \in BOOLEAN :
        /\ th[c].pc = "raised"
        /\ connected => Len(vs.v.conns) < MaxConns
        /\ PoolStep(c, [pc |-> "idle",
                        conn |-> IF connected THEN Len(vs.v.conns) + 1 ELSE 0],
                    [vs.v EXCEPT !.conns = IF connected THEN Append(@, Connection(FALSE))
                                                        ELSE @])

\* rag_service.py lines 309-321: execute_query hands its connection, pooled or
\* direct, to return_connection (db_pool.py lines 131-163)
ReturnConnection ==
    \E c \in PoolThreads :
        /\ th[c].pc = "idle" /\ th[c].conn # 0
        /\ acquire(vs.v, c)
        /\ PoolStep(c, NoCall, return_connection(vs.v, th[c].conn))

\* rag_service.py lines 429-437: validate_sql closes its connection
ValidateSql ==
    \E c \in PoolThreads :
        /\ th[c].pc = "idle" /\ th[c].conn # 0
        /\ PoolStep(c, NoCall, [vs.v EXCEPT !.conns[th[c].conn] = Closed(@)])

\* db_pool.py lines 165-178
CloseAll ==
    /\ acquire(vs.v, 0)
    /\ vs' = Some(close_all(vs.v))
    /\ UNCHANGED <<cache_vars, th, acked, det>>

\* the server or the network drops a connection: SELECT 1 fails on it from now on
ConnectionLost ==
    \E conn \in DOMAIN vs.v.conns :
        /\ _validate_connection(vs.v, conn)
        /\ vs' = Some([vs.v EXCEPT !.conns[conn].valid = FALSE])
        /\ UNCHANGED <<cache_vars, th, acked, det>>

NextPool ==
    \/ GetConnection \/ PoolGet \/ StaleReplace \/ PoolEmpty \/ CreateConnection
    \/ DirectConnect \/ ReturnConnection \/ ValidateSql \/ CloseAll \/ ConnectionLost

SpecPool == InitPool /\ [][NextPool]_vars

\* the pool's connections that are open and queued or in a caller's hands
PoolOpen ==
    {conn \in DOMAIN vs.v.conns :
        /\ vs.v.conns[conn].pooled /\ vs.v.conns[conn].open
        /\ \/ \E k \in DOMAIN vs.v.pool : vs.v.pool[k] = conn
           \/ \E c \in PoolThreads : th[c].conn = conn}

\* C27: no get_connection call blocks forever: a call that found the queue empty
\* with fewer than max_connections active is never left waiting for the lock it
\* holds itself.
C27_NoCallBlocksForever ==
    \A c \in PoolThreads : ~(th[c].pc = "create" /\ vs.v.lock = c)

\* C28: the pool's open connections, queued or handed out, never number more
\* than max_connections.
C28_OpenNeverExceedsMax ==
    Cardinality(PoolOpen) <= max_connections

\* the counter alone: it never drops below zero
C29_ActiveNeverNegative == vs.v.active_connections >= 0

\* C29: active_connections is the number of the pool's connections that are
\* still open, and is never negative.
C29_ActiveCountsOpen ==
    /\ C29_ActiveNeverNegative
    /\ vs.v.active_connections =
          Cardinality({conn \in DOMAIN vs.v.conns :
                          vs.v.conns[conn].pooled /\ vs.v.conns[conn].open})

====
